---- MODULE Spec2Model ----
(***************************************************************************)
(* Model of the Excel keyword workflow of yxu173/agent-app:                *)
(*   - the module-global chunk cursor and the chunk reader                 *)
(*     (workflows/excel_workflow.py, lines 15-175),                        *)
(*   - ExcelProcessor.run and its helpers (same file, lines 437-913),      *)
(*   - the session store ExcelSessionManager                               *)
(*     (workflows/excel_session_manager.py),                               *)
(*   - the Streamlit page that drives them (ui/pages/7_Excel_processor.py).*)
(* A workflow object w is one ExcelProcessor held by one browser session;  *)
(* its Run is the generator ExcelProcessor.run, advanced one step at a     *)
(* time by the page's "for resp_chunk in run_response" loop.               *)
(***************************************************************************)
EXTENDS Integers, Naturals, Sequences, FiniteSets, TLC

\* ------------------------------------------------------------------ bounds
NumWorkflows == 2
MaxSessions == 2
MaxRuns == 1
MaxRows == 3
MaxChunk == 2
NumUsers == 2
MaxArtifact == 3
NumKeys == 2
NumValues == 2
MaxCols == 3

\* ------------------------------------------------- constants of the program
DefaultChunkSize == 100

Workflows == 1..NumWorkflows
SessionIds == 1..MaxSessions

\* A cell value of the keyword column, as the text str(value) gives: a list of
\* characters. Keyword is a usable term; NaNCell is the text of a missing
\* value (NaN, here with padding and in upper case), NoneCell that of None.
Keyword == <<"s", "e", "o">>
NaNCell == <<" ", "N", "a", "N", " ">>
NoneCell == <<"N", "o", "n", "e">>
EmptyCell == <<>>
RowTerms == {Keyword, NaNCell, NoneCell, EmptyCell}

\* The uploaded sources: a path with no file, a zero-byte file, a file no
\* engine can parse (or with no usable sheet), or a sheet of data rows.
ReadableFiles == UNION {[1..n -> RowTerms] : n \in 0..MaxRows}
Files ==
  {[kind |-> "missing", rows |-> <<>>], [kind |-> "zero_byte", rows |-> <<>>],
   [kind |-> "unparsable", rows |-> <<>>]}
  \cup {[kind |-> "readable", rows |-> r] : r \in ReadableFiles}

\* The chunk_size argument of run: a string; num says whether int() accepts it.
NotANumber == [num |-> FALSE, val |-> 0]
ChunkInputs == {[num |-> TRUE, val |-> v] : v \in 0..MaxChunk} \cup {NotANumber}

VARIABLES
  current_row_position,  \* excel_workflow.py:15, the module-global cursor
  sessions,              \* table excel_workflow_sessions, by session_id
  artifact,              \* tmp/session_keywords_<id>.xlsx, by session id
  session_id,            \* ExcelProcessor.session_id of each workflow object
  current_session_id,    \* ExcelProcessor.current_session_id
  ui_data,               \* st.session_state[workflow_name]["session_data"]
  pc,                    \* position of each workflow's Run generator
  run,                   \* the local variables of each Run
  events,                \* the RunResponse stream each Run has yielded so far
  settings_db,           \* table workflow_settings, by setting_key
  settings_file,         \* tmp/workflow_settings.json, by setting_key
  last_saved,            \* per key, the value of the last save_setting that
                         \* returned True (0 after a delete_setting)
  call                   \* the last direct call of a manager method: its
                         \* arguments and what it returned

run_vars == <<current_row_position, session_id, current_session_id, ui_data,
              pc, run, events>>

settings_vars == <<settings_db, settings_file, last_saved>>

vars == <<current_row_position, sessions, artifact, session_id,
          current_session_id, ui_data, pc, run, events, settings_db,
          settings_file, last_saved, call>>

\* ------------------------------------------------------------ text helpers
IsSpace(c) == c = " "

RECURSIVE LStrip(_)
LStrip(s) == IF s # <<>> /\ IsSpace(Head(s)) THEN LStrip(Tail(s)) ELSE s

RECURSIVE RStrip(_)
RStrip(s) ==
  IF s # <<>> /\ IsSpace(s[Len(s)]) THEN RStrip(SubSeq(s, 1, Len(s) - 1)) ELSE s

\* str.strip()
Strip(s) == RStrip(LStrip(s))

LowerChar(c) ==
  CASE c = "N" -> "n"
    [] c = "A" -> "a"
    [] c = "O" -> "o"
    [] c = "E" -> "e"
    [] c = "S" -> "s"
    [] c = "T" -> "t"
    [] c = "K" -> "k"
    [] c = "W" -> "w"
    [] c = "C" -> "c"
    [] OTHER -> c

\* str.lower()
Lower(s) == [i \in 1..Len(s) |-> LowerChar(s[i])]

NullSentinels == {<<"n", "a", "n">>, <<"n", "o", "n", "e">>, <<>>}

\* The filter without its .lower(): "NaN" and "None" pass
IsValidKeywordDropLower(cell) ==
  Strip(cell) # <<>> /\ Strip(cell) \notin NullSentinels

\* excel_workflow.py:871-873: the row's keyword survives the filter
IsValidKeyword(cell) ==
  Strip(cell) # <<>> /\ Lower(Strip(cell)) \notin NullSentinels

RECURSIVE FilterValid(_)
FilterValid(cells) ==
  IF cells = <<>> THEN <<>>
  ELSE IF IsValidKeyword(Head(cells))
       THEN <<Strip(Head(cells))>> \o FilterValid(Tail(cells))
       ELSE FilterValid(Tail(cells))

\* prepare_keywords_for_analysis: the keywords of the chunk that go to the
\* analyzer; <<>> stands for the None it returns when nothing is left.
prepare_keywords_for_analysis(chunk) == FilterValid(chunk)

\* Column names of a sheet, as texts
ColTerm == <<"T", "e", "r", "m">>
ColWords == <<"w", "o", "r", "d", "s">>
ColType == <<"t", "y", "p", "e">>
ColClass == <<"C", "l", "a", "s", "s">>
ColId == <<"i", "d">>
ColKeyword == <<"K", "e", "y", "w", "o", "r", "d">>
ColumnNames == {ColTerm, ColWords, ColType, ColClass, ColId, ColKeyword}

\* sub in s, for texts
Contains(s, sub) ==
  \E i \in 1..(Len(s) - Len(sub) + 1) : SubSeq(s, i, i + Len(sub) - 1) = sub

KeywordSynonyms ==
  {<<"k", "e", "y", "w", "o", "r", "d">>, <<"t", "e", "r", "m">>,
   <<"p", "h", "r", "a", "s", "e">>, <<"w", "o", "r", "d">>}

CategorySynonyms ==
  {<<"c", "a", "t", "e", "g", "o", "r", "y">>, <<"t", "y", "p", "e">>,
   <<"c", "l", "a", "s", "s">>, <<"g", "r", "o", "u", "p">>}

IsKeywordColumn(col) == \E k \in KeywordSynonyms : Contains(Lower(col), k)

IsCategoryColumn(col) == \E k \in CategorySynonyms : Contains(Lower(col), k)

\* prepare_keywords_for_analysis, lines 852-866: the loop over
\* chunk_df.columns from column i on, keyword_column and category_column
\* being kw and cat so far (0 is None); then the defaults: the first column,
\* and for the category 0, the constant 'general'
RECURSIVE ResolveColumns(_, _, _, _)
ResolveColumns(columns, i, kw, cat) ==
  IF i > Len(columns)
  THEN [keyword_column |-> IF kw = 0 THEN 1 ELSE kw, category_column |-> cat]
  ELSE IF IsKeywordColumn(columns[i]) THEN ResolveColumns(columns, i + 1, i, cat)
  ELSE IF IsCategoryColumn(columns[i]) THEN ResolveColumns(columns, i + 1, kw, i)
  ELSE ResolveColumns(columns, i + 1, kw, cat)

\* ------------------------------------------------------------ chunk reader
\* len(df) of the sheet the engines manage to load
TotalRows(file) == Len(file.rows)

Min(a, b) == IF a < b THEN a ELSE b

\* has_more_chunks: False when no engine can load the file, else
\* current_pos < total_rows
has_more_chunks(file, pos) ==
  IF file.kind # "readable" THEN FALSE ELSE pos < TotalRows(file)

\* A reader that wraps around: a read at or past the last row sends the
\* cursor back to row 0
read_excel_chunk_wrapping(file, pos, chunk_size) ==
  IF pos >= Len(file.rows)
  THEN [cells |-> <<>>, start_row |-> pos, end_row |-> Len(file.rows),
        position |-> 0]
  ELSE [cells |-> SubSeq(file.rows, pos + 1,
                         IF pos + chunk_size < Len(file.rows)
                         THEN pos + chunk_size ELSE Len(file.rows)),
        start_row |-> pos,
        end_row |-> IF pos + chunk_size < Len(file.rows)
                    THEN pos + chunk_size ELSE Len(file.rows),
        position |-> IF pos + chunk_size < Len(file.rows)
                     THEN pos + chunk_size ELSE Len(file.rows)]

\* A reader that returns the chunk and leaves the cursor where it was
read_excel_chunk_stuck(file, pos, chunk_size) ==
  IF pos >= Len(file.rows)
  THEN [cells |-> <<>>, start_row |-> pos, end_row |-> Len(file.rows),
        position |-> pos]
  ELSE [cells |-> SubSeq(file.rows, pos + 1,
                         IF pos + chunk_size < Len(file.rows)
                         THEN pos + chunk_size ELSE Len(file.rows)),
        start_row |-> pos,
        end_row |-> IF pos + chunk_size < Len(file.rows)
                    THEN pos + chunk_size ELSE Len(file.rows),
        position |-> pos]

\* An end_row taken as an inclusive index: one row too many
EndRowInclusive(file, pos, chunk_size) ==
  Min(pos + chunk_size + 1, TotalRows(file))

\* The end_row of the chunk read at pos: min(pos + chunk_size, total_rows)
EndRow(file, pos, chunk_size) == Min(pos + chunk_size, TotalRows(file))

\* read_excel_chunk_with_calamine at cursor pos: the chunk's cells, the
\* (start_row, end_row) it returns and the cursor it leaves behind.
read_excel_chunk_with_calamine(file, pos, chunk_size) ==
  IF pos >= TotalRows(file)
  THEN [cells |-> <<>>, start_row |-> pos, end_row |-> TotalRows(file),
        position |-> pos]
  ELSE [cells |-> SubSeq(file.rows, pos + 1, EndRow(file, pos, chunk_size)),
        start_row |-> pos,
        end_row |-> EndRow(file, pos, chunk_size),
        position |-> EndRow(file, pos, chunk_size)]

\* A reset that leaves the cursor where the Run before left it
keep_excel_position(pos) == pos

\* reset_excel_position: the cursor after the reset
reset_excel_position(pos) == 0

\* process_excel_file: the path it returns, or None (FALSE) when the path
\* has no file or the file is empty
process_excel_file(file) == file.kind \notin {"missing", "zero_byte"}

\* get_excel_file_info(...).get('total_rows', 0)
InfoTotalRows(file) == IF file.kind = "readable" THEN TotalRows(file) ELSE 0

\* run, lines 540-547: the chunk size the loop uses
NormalizeChunkSize(cin) ==
  IF cin.num /\ cin.val > 0 THEN cin.val ELSE DefaultChunkSize

\* ------------------------------------------------------------ session store
NoPath == 0
NoTotal == -1
NoRecord ==
  [exists |-> FALSE, session_name |-> 0, chunk_size |-> 0, status |-> "pending",
   results_file_path |-> NoPath, total_keywords |-> 0, completed_at |-> FALSE,
   is_active |-> FALSE, user_id |-> 0, created_at |-> 0]

\* user_id: 0 is None, DefaultUser is the page's "default_user"
Users == 1..NumUsers
DefaultUser == 1

Statuses == {"pending", "processing", "completed", "failed"}
Terminal == {"completed", "failed"}

\* ExcelSessionManager.get_session_by_name: the id of the active record of
\* that name, 0 for None
get_session_by_name(store, name) ==
  IF \E s \in SessionIds :
       store[s].exists /\ store[s].is_active /\ store[s].session_name = name
  THEN CHOOSE s \in SessionIds :
         store[s].exists /\ store[s].is_active /\ store[s].session_name = name
  ELSE 0

\* ExcelSessionManager.get_session_by_id: the active record of that id, or
\* None (0)
get_session_by_id(store, sid) ==
  IF sid # 0 /\ store[sid].exists /\ store[sid].is_active THEN sid ELSE 0

\* generate_session_name: names are the base name (0) and "base (n)" (n);
\* the loop probes base, base (1), base (2), ... for an active holder
RECURSIVE ProbeName(_, _)
ProbeName(store, n) ==
  IF get_session_by_name(store, n) # 0 THEN ProbeName(store, n + 1) ELSE n

generate_session_name(store) == ProbeName(store, 0)

\* uuid.uuid4(): an id no record has
FreshId(store) == CHOOSE s \in SessionIds :
  /\ ~store[s].exists
  /\ \A t \in SessionIds : t < s => store[t].exists

\* session_name is unique=True over the whole table: the commit of
\* create_session raises when any record, active or not, holds the name
CreateRaises(store, name) ==
  \E s \in SessionIds : store[s].exists /\ store[s].session_name = name

\* created_at is the server's now(): the latest value a record holds, and
\* the next tick of the clock
LatestCreated(store) ==
  CHOOSE t \in 0..MaxSessions :
    /\ \A s \in SessionIds : store[s].created_at <= t
    /\ t = 0 \/ \E s \in SessionIds : store[s].created_at = t

Tick(store) == LatestCreated(store) + 1

\* ExcelSessionManager.create_session, when the commit succeeds
create_session(store, name, chunk_size, user_id, now) ==
  [store EXCEPT ![FreshId(store)] =
     [exists |-> TRUE, session_name |-> name, chunk_size |-> chunk_size,
      status |-> "pending", results_file_path |-> NoPath, total_keywords |-> 0,
      completed_at |-> FALSE, is_active |-> TRUE, user_id |-> user_id,
      created_at |-> now]]

\* ExcelSessionManager.update_session_status: no record, no change; else the
\* status is stored as given
ManagerUpdateStatus(store, sid, status, path, total) ==
  IF sid \notin SessionIds \/ ~store[sid].exists
  THEN store
  ELSE [store EXCEPT ![sid] =
          [@ EXCEPT !.status = status,
                    !.results_file_path = IF path # NoPath THEN path ELSE @,
                    !.total_keywords = IF total # NoTotal THEN total ELSE @,
                    !.completed_at = IF status = "completed" THEN TRUE ELSE @]]

\* ExcelProcessor.update_session_status: the record addressed is the one
\* self.session_id names; 0 is a session_id that names no record of the
\* table (unset, or an id the table never issued), and nothing is written
update_session_status(w, status, path, total) ==
  IF session_id[w] = 0 THEN sessions
  ELSE ManagerUpdateStatus(sessions, session_id[w], status, path, total)

\* -------------------------------------------------------- result artifact
NoFile == [exists |-> FALSE, rows |-> <<>>]

\* A keyword the row filter lets through and pandas takes for a missing value
NACell == <<"N", "A">>

\* The float NaN that pd.read_excel gives for a missing value
FloatNaN == <<"float('nan')">>

\* The cell texts pd.read_excel takes for missing values (its default
\* na_values), as far as the cells of the model go
NAStrings == {EmptyCell, NACell, <<"N", "a", "N">>, <<"n", "a", "n">>}

\* pd.read_excel(...).to_dict('records'), line 900-901: a cell as loaded
ReadExcelCell(c) == IF c \in NAStrings THEN FloatNaN ELSE c

ReadExcel(rows) == [i \in 1..Len(rows) |-> ReadExcelCell(rows[i])]

\* pd.DataFrame(...).to_excel, line 909-910: a value as written to its cell
\* (NaN is written as an empty cell)
WriteExcelCell(v) == IF v = FloatNaN THEN EmptyCell ELSE v

WriteExcel(rows) == [i \in 1..Len(rows) |-> WriteExcelCell(rows[i])]

\* save_keywords_to_session, line 910: df.to_excel raises
\* One results file for every session
session_excel_file_default(sid) == 1

\* save_keywords_to_session, line 896: the artifact file of a session,
\* tmp/session_keywords_<session_id>.xlsx; files are named here by the id
session_excel_file(sid) == sid

SaveRaises(file, keywords_data, read_ok, write_ok) ==
  LET existing == IF file.exists /\ read_ok THEN file.rows ELSE <<>>
  IN existing \o keywords_data # <<>> /\ ~write_ok

\* save_keywords_to_session: load the file if there is one (an unreadable
\* file loads as nothing), extend, and rewrite unless there is nothing to
\* write; a failed write is logged and leaves the file as it was
save_keywords_to_session(file, keywords_data, read_ok, write_ok) ==
  LET existing == IF file.exists /\ read_ok THEN ReadExcel(file.rows) ELSE <<>>
      all == existing \o keywords_data
  IN IF all # <<>> /\ write_ok
     THEN [exists |-> TRUE, rows |-> WriteExcel(all)]
     ELSE file

\* ------------------------------------------------------------------- state
NoData == [sid |-> 0, results_file_path |-> NoPath]

NoFileChosen == [kind |-> "missing", rows |-> <<>>]

\* The locals of run at its first line. chunks, analyzer_calls,
\* status_writes and save_failed record what the Run did: the (start_row,
\* end_row) pairs the reader returned, the chunk numbers handed to
\* keyword_analyzer.run, the update_session_status calls issued, and whether
\* a write of save_keywords_to_session failed.
FreshRun(file, cin, name) ==
  [file |-> file, chunk_size |-> cin, session_name |-> name, session |-> 0,
   chunk_size_int |-> 0, total_rows |-> 0, total_keywords |-> 0,
   chunk_number |-> 0, current_pos |-> 0, start_row |-> 0, end_row |-> 0,
   keywords |-> <<>>, summary |-> NoTotal, chunks |-> <<>>,
   analyzer_calls |-> <<>>, status_writes |-> <<>>, save_failed |-> FALSE]

IdleRun == FreshRun(NoFileChosen, NotANumber, 0)

\* workflow_settings: the setting keys of one workflow and their values; a
\* row of the table, and 0 for a key the fallback file does not hold
Keys == 1..NumKeys
Values == 1..NumValues
NoSetting == [exists |-> FALSE, setting_value |-> 0, is_active |-> FALSE]

\* A direct call of a method of ExcelSessionManager, ExcelProcessor or
\* WorkflowSettingsManager: op names the method, the other fields hold the
\* arguments, the outcome of the I/O it did, and the value it returned
NoCall ==
  [op |-> "none", sid |-> 0, key |-> 0, arg |-> 0, rows |-> <<>>,
   read_ok |-> TRUE, write_ok |-> TRUE, db_ok |-> TRUE, ok |-> TRUE,
   value |-> 0, listed |-> <<>>, file |-> NoFileChosen, start_row |-> 0,
   end_row |-> 0]

Init ==
  /\ current_row_position = 0
  /\ sessions = [s \in SessionIds |-> NoRecord]
  /\ artifact = [s \in SessionIds |-> NoFile]
  /\ session_id = [w \in Workflows |-> 0]
  /\ current_session_id = [w \in Workflows |-> 0]
  /\ ui_data = [w \in Workflows |-> NoData]
  /\ pc = [w \in Workflows |-> "idle"]
  /\ run = [w \in Workflows |-> IdleRun]
  /\ events = [w \in Workflows |-> <<>>]
  /\ settings_db = [k \in Keys |-> NoSetting]
  /\ settings_file = [k \in Keys |-> 0]
  /\ last_saved = [k \in Keys |-> 0]
  /\ call = NoCall

Event(kind, chunk) == [kind |-> kind, chunk |-> chunk]

Yield(w, kind, chunk) ==
  events' = [events EXCEPT ![w] = Append(@, Event(kind, chunk))]

\* A call self.update_session_status(status, ...) of the Run of w, noted
\* with the record it addresses
LogWrite(w, r, status) ==
  [r EXCEPT !.status_writes =
     Append(@, [target |-> session_id[w], status |-> status])]

\* A handler that marks the session failed and ends the stream with no
\* message
ExceptHandlerSilent(w, r, csid) ==
  /\ sessions' = IF csid # 0
                 THEN update_session_status(w, "failed", NoPath, NoTotal)
                 ELSE sessions
  /\ run' = [run EXCEPT ![w] = IF csid # 0 THEN LogWrite(w, r, "failed") ELSE r]
  /\ UNCHANGED events
  /\ pc' = [pc EXCEPT ![w] = "done"]

\* run, lines 734-743: the handler of any exception raised in run
ExceptHandler(w, r, csid) ==
  /\ sessions' = IF csid # 0
                 THEN update_session_status(w, "failed", NoPath, NoTotal)
                 ELSE sessions
  /\ run' = [run EXCEPT ![w] = IF csid # 0 THEN LogWrite(w, r, "failed") ELSE r]
  /\ Yield(w, "error", r.chunk_number)
  /\ pc' = [pc EXCEPT ![w] = "done"]

\* ---------------------------------------------------------------- the page
\* "Analyze Keywords": the page generates the session name and calls
\* run_workflow with the uploaded file and the selected chunk size. The
\* uploads offered and the number of sessions the table may come to hold are
\* what bounds a specification.
StartRun(w, files, inputs, max_sessions) ==
  /\ UNCHANGED <<settings_vars, call>>
  /\ pc[w] = "idle"
  /\ Cardinality({s \in SessionIds : sessions[s].exists}) < max_sessions
  /\ \E file \in files, cin \in inputs :
       run' = [run EXCEPT ![w] =
                 FreshRun(file, cin, generate_session_name(sessions))]
  /\ events' = [events EXCEPT ![w] = <<>>]
  /\ pc' = [pc EXCEPT ![w] = "create"]
  /\ UNCHANGED <<current_row_position, sessions, artifact, session_id,
                 current_session_id, ui_data>>

\* run, lines 490-531: int(chunk_size), create_session, the initial message
CreateSession(w) ==
  /\ UNCHANGED <<settings_vars, call>>
  /\ pc[w] = "create"
  /\ LET r == run[w] IN
     IF ~r.chunk_size.num \/ CreateRaises(sessions, r.session_name)
     THEN /\ ExceptHandler(w, r, current_session_id[w])
          /\ UNCHANGED <<current_session_id>>
     ELSE /\ sessions' = create_session(sessions, r.session_name,
                                         r.chunk_size.val, DefaultUser,
                                         Tick(sessions))
          /\ current_session_id' =
               [current_session_id EXCEPT ![w] = FreshId(sessions)]
          /\ run' = [run EXCEPT ![w] = [r EXCEPT !.session = FreshId(sessions)]]
          /\ Yield(w, "initial", 0)
          /\ pc' = [pc EXCEPT ![w] = "set_processing"]
  /\ UNCHANGED <<current_row_position, artifact, session_id, ui_data>>

\* run, lines 536-553: chunk size normalised, status set to processing
SetProcessing(w) ==
  /\ UNCHANGED <<settings_vars, call>>
  /\ pc[w] = "set_processing"
  /\ sessions' = update_session_status(w, "processing", NoPath, NoTotal)
  /\ run' = [run EXCEPT ![w] =
       LogWrite(w, [@ EXCEPT !.chunk_size_int =
                               NormalizeChunkSize(run[w].chunk_size)],
                "processing")]
  /\ pc' = [pc EXCEPT ![w] = "open"]
  /\ UNCHANGED <<current_row_position, artifact, session_id,
                 current_session_id, ui_data, events>>

\* run, lines 555-596: process_excel_file (which resets the cursor),
\* get_excel_file_info, the start message
OpenFile(w) ==
  /\ UNCHANGED <<settings_vars, call>>
  /\ pc[w] = "open"
  /\ IF ~process_excel_file(run[w].file)
     THEN /\ sessions' = update_session_status(w, "failed", NoPath, NoTotal)
          /\ run' = [run EXCEPT ![w] = LogWrite(w, @, "failed")]
          /\ Yield(w, "error", 0)
          /\ pc' = [pc EXCEPT ![w] = "done"]
          /\ UNCHANGED current_row_position
     ELSE /\ current_row_position' = reset_excel_position(current_row_position)
          /\ run' = [run EXCEPT ![w].total_rows = InfoTotalRows(run[w].file)]
          /\ Yield(w, "start", 0)
          /\ pc' = [pc EXCEPT ![w] = "has_more"]
          /\ UNCHANGED sessions
  /\ UNCHANGED <<artifact, session_id, current_session_id, ui_data>>

\* run, lines 602-604: the loop test, chunk_number, current_pos
HasMoreChunks(w) ==
  /\ UNCHANGED <<settings_vars, call>>
  /\ pc[w] = "has_more"
  /\ IF has_more_chunks(run[w].file, current_row_position)
     THEN /\ run' = [run EXCEPT ![w].chunk_number = @ + 1,
                                ![w].current_pos = current_row_position]
          /\ pc' = [pc EXCEPT ![w] = "read"]
     ELSE /\ pc' = [pc EXCEPT ![w] = "finalize"]
          /\ UNCHANGED run
  /\ UNCHANGED <<current_row_position, sessions, artifact, session_id,
                 current_session_id, ui_data, events>>

\* run, lines 606-656: the chunk read, the empty-chunk break, the keyword
\* filter, and the skipped or chunk-started message
ReadChunk(w) ==
  /\ UNCHANGED <<settings_vars, call>>
  /\ pc[w] = "read"
  /\ LET r == run[w]
         got == read_excel_chunk_with_calamine(r.file, current_row_position,
                                               r.chunk_size_int)
         kws == prepare_keywords_for_analysis(got.cells)
         r2 == [r EXCEPT !.start_row = got.start_row, !.end_row = got.end_row,
                         !.keywords = kws]
     IN /\ current_row_position' = got.position
        /\ IF got.cells = <<>>
           THEN /\ run' = [run EXCEPT ![w] = r2]
                /\ pc' = [pc EXCEPT ![w] = "finalize"]
                /\ UNCHANGED events
           ELSE /\ run' = [run EXCEPT ![w] =
                     [r2 EXCEPT !.chunks = Append(@, <<got.start_row, got.end_row>>)]]
                /\ IF kws = <<>>
                   THEN /\ Yield(w, "skipped", r.chunk_number)
                        /\ pc' = [pc EXCEPT ![w] = "has_more"]
                   ELSE /\ Yield(w, "chunk_started", r.chunk_number)
                        /\ pc' = [pc EXCEPT ![w] = "analyze"]
  /\ UNCHANGED <<sessions, artifact, session_id, current_session_id, ui_data>>

\* What keyword_analyzer.run can come to: it raises (timeout, upstream
\* error), it ends without an ExcelChunkAnalysis (malformed or missing
\* structured output), or it returns the valuable keywords
AnalyzerAnswers(kws) == {<<>>, kws}

\* run, lines 658-711: the analyzer call, and on a structured answer the
\* running total, save_keywords_to_session and the chunk-complete message
AnalyzeChunk(w) ==
  /\ UNCHANGED <<settings_vars, call>>
  /\ pc[w] = "analyze"
  /\ LET r == [run[w] EXCEPT !.analyzer_calls =
                               Append(@, run[w].chunk_number)] IN
     \/ /\ ExceptHandler(w, r, current_session_id[w])
        /\ UNCHANGED artifact
     \/ /\ run' = [run EXCEPT ![w] = r]
        /\ pc' = [pc EXCEPT ![w] = "has_more"]
        /\ UNCHANGED <<sessions, artifact, events>>
     \/ \E keywords_data \in AnalyzerAnswers(r.keywords),
           read_ok \in BOOLEAN, write_ok \in BOOLEAN :
          /\ run' = [run EXCEPT ![w] =
               [r EXCEPT !.total_keywords = @ + Len(keywords_data),
                         !.save_failed = @ \/ SaveRaises(
                             artifact[session_excel_file(r.session)],
                             keywords_data, read_ok, write_ok)]]
          /\ artifact' = [artifact EXCEPT ![session_excel_file(r.session)] =
               save_keywords_to_session(@, keywords_data, read_ok, write_ok)]
          /\ Yield(w, "chunk_completed", r.chunk_number)
          /\ pc' = [pc EXCEPT ![w] = "has_more"]
          /\ UNCHANGED sessions
  /\ UNCHANGED <<current_row_position, session_id, current_session_id, ui_data>>

\* A summary that counts the rows of the file whether or not it could be read
finalize_session_unread(file, read_ok) ==
  IF file.exists THEN Len(file.rows) ELSE 0

\* finalize_session: the number of rows the summary reports (an unreadable
\* or absent artifact reads as no rows)
finalize_session(file, read_ok) ==
  IF file.exists /\ read_ok THEN Len(file.rows) ELSE 0

\* run, lines 713-732: the summary, the completed status (with the results
\* path when the artifact file exists), the final message
Finalize(w) ==
  /\ UNCHANGED <<settings_vars, call>>
  /\ pc[w] = "finalize"
  /\ LET r == run[w] IN
     /\ \E read_ok \in BOOLEAN :
          run' = [run EXCEPT ![w] =
            LogWrite(w, [r EXCEPT !.summary =
                           finalize_session(artifact[r.session], read_ok)],
                     "completed")]
     /\ sessions' =
          IF artifact[r.session].exists
          THEN update_session_status(w, "completed", r.session, r.total_keywords)
          ELSE update_session_status(w, "completed", NoPath, r.total_keywords)
     /\ Yield(w, "final", r.chunk_number)
     /\ pc' = [pc EXCEPT ![w] = "done"]
  /\ UNCHANGED <<current_row_position, artifact, session_id,
                 current_session_id, ui_data>>

\* ExcelProcessor.get_session_by_name as the page uses it: a session found
\* becomes the workflow's session_id and the page's session_data
LoadSession(w, name) ==
  LET sid == get_session_by_name(sessions, name) IN
  IF sid # 0
  THEN /\ session_id' = [session_id EXCEPT ![w] = sid]
       /\ ui_data' = [ui_data EXCEPT ![w] =
            [sid |-> sid, results_file_path |-> sessions[sid].results_file_path]]
  ELSE UNCHANGED <<session_id, ui_data>>

\* 7_Excel_processor.py, lines 462-470: once the stream is consumed the page
\* reloads the session by the name it gave the Run
RefreshAfterRun(w) ==
  /\ UNCHANGED <<settings_vars, call>>
  /\ pc[w] = "done"
  /\ LoadSession(w, run[w].session_name)
  /\ pc' = [pc EXCEPT ![w] = "idle"]
  /\ run' = [run EXCEPT ![w] = IdleRun]
  /\ events' = [events EXCEPT ![w] = <<>>]
  /\ UNCHANGED <<current_row_position, sessions, artifact, current_session_id>>

\* The generator run is suspended at a yield, the page holding its last
\* message: after the initial message (line 531), the start message (593), a
\* skipped message (620), a chunk-started message (653) or a chunk-complete
\* message (708). After an analyzer answer that is not structured the loop
\* goes round with no yield.
AtYield(w) ==
  \/ pc[w] \in {"set_processing", "analyze"}
  \/ /\ pc[w] = "has_more"
     /\ events[w][Len(events[w])].kind \in {"start", "skipped", "chunk_completed"}

\* 7_Excel_processor.py, line 454: the page stops iterating the stream (a
\* rerun of the script, a closed tab): the generator stays suspended at the
\* yield it reached, its locals as they were, and is never resumed. The
\* code has no other way to stop a Run.
AbandonRun(w) ==
  /\ UNCHANGED <<settings_vars, call>>
  /\ AtYield(w)
  /\ pc' = [pc EXCEPT ![w] = "idle"]
  /\ UNCHANGED <<current_row_position, sessions, artifact, session_id,
                 current_session_id, ui_data, run, events>>

\* selected_session.split(" (")[0]: the option text is "<name> (<status>)",
\* so a suffixed name "base (n)" is cut back to the base name
OptionSessionName(name) == 0

\* excel_session_selector: the user picks one of the listed (active) sessions
SelectSession(w) ==
  /\ UNCHANGED <<settings_vars, call>>
  /\ pc[w] = "idle"
  /\ \E s \in SessionIds :
       /\ sessions[s].exists /\ sessions[s].is_active
       /\ LoadSession(w, OptionSessionName(sessions[s].session_name))
  /\ UNCHANGED <<current_row_position, sessions, artifact, current_session_id,
                 pc, run, events>>

\* The results file the page shows for its session_data: the stored path,
\* else tmp/session_keywords_<id>.xlsx when that file exists
PageResultsFile(d) ==
  IF d.results_file_path # NoPath THEN d.results_file_path
  ELSE IF d.sid # 0 /\ artifact[d.sid].exists THEN d.sid
  ELSE NoPath

\* "Clear Results": os.remove of the results file, then
\* workflow.update_session_status("pending", results_file_path=None)
ClearResults(w) ==
  /\ UNCHANGED <<settings_vars, call>>
  /\ pc[w] = "idle"
  /\ ui_data[w].sid # 0
  /\ LET path == PageResultsFile(ui_data[w]) IN
     /\ path # NoPath
     /\ artifact[path].exists
     /\ artifact' = [artifact EXCEPT ![path] = NoFile]
     /\ ui_data' = [ui_data EXCEPT ![w].results_file_path = path]
     /\ sessions' = update_session_status(w, "pending", NoPath, NoTotal)
  /\ UNCHANGED <<current_row_position, session_id, current_session_id, pc,
                 run, events>>

\* ---------------------------------------------------- direct calls: store
\* The record delete_session would rather drop from the table
delete_session_hard(store, sid) ==
  IF ~store[sid].exists THEN store ELSE [store EXCEPT ![sid] = NoRecord]

\* ExcelSessionManager.delete_session: the record is marked inactive
delete_session(store, sid) ==
  IF ~store[sid].exists THEN store
  ELSE [store EXCEPT ![sid].is_active = FALSE]

\* The filter of list_user_sessions without is_active
MatchingAny(store, user_id) ==
  {s \in SessionIds :
     /\ store[s].exists
     /\ user_id = 0 \/ store[s].user_id = user_id}

\* list_user_sessions, lines 300-305: the records the query filters in
\* (user_id 0 is None: no owner filter)
Matching(store, user_id) ==
  {s \in SessionIds :
     /\ store[s].exists /\ store[s].is_active
     /\ user_id = 0 \/ store[s].user_id = user_id}

\* order_by(created_at.desc()): the orders the database may return the
\* records of ids in (records of equal created_at come in either order)
Orderings(store, ids) ==
  {o \in [1..Cardinality(ids) -> ids] :
     /\ \A i, j \in 1..Cardinality(ids) : i # j => o[i] # o[j]
     /\ \A i, j \in 1..Cardinality(ids) :
          i < j => store[o[i]].created_at >= store[o[j]].created_at}

\* ExcelSessionManager.list_user_sessions: the lists it may return
list_user_sessions(store, user_id, limit) ==
  {SubSeq(o, 1, Min(limit, Len(o))) :
     o \in Orderings(store, Matching(store, user_id))}

\* ExcelSessionManager.create_session(session_name, ..., chunk_size, user_id)
ApiCreateSession ==
  /\ UNCHANGED <<artifact, run_vars, settings_vars>>
  /\ Cardinality({s \in SessionIds : sessions[s].exists}) < MaxSessions
  /\ \E name \in 0..(MaxSessions - 1), user_id \in Users,
        now \in {LatestCreated(sessions), Tick(sessions)} :
       /\ now >= 1
       /\ IF CreateRaises(sessions, name)
          THEN /\ UNCHANGED sessions
               /\ call' = [NoCall EXCEPT !.op = "create_session",
                                         !.arg = name, !.ok = FALSE]
          ELSE /\ sessions' = create_session(sessions, name, MaxChunk,
                                              user_id, now)
               /\ call' = [NoCall EXCEPT !.op = "create_session",
                                         !.arg = name,
                                         !.sid = FreshId(sessions)]

\* ExcelSessionManager.update_session_status(session_id, status, ...): a Run
\* under way, or completed with its results
ApiUpdateStatus(s) ==
  /\ UNCHANGED <<artifact, run_vars, settings_vars>>
  /\ \E a \in {<<"processing", NoPath, NoTotal>>, <<"completed", s, 1>>} :
       /\ sessions' = ManagerUpdateStatus(sessions, s, a[1], a[2], a[3])
       /\ call' = [NoCall EXCEPT !.op = "update_session_status", !.sid = s,
                                 !.ok = sessions[s].exists]

\* ExcelSessionManager.delete_session(session_id)
ApiDeleteSession(s) ==
  /\ UNCHANGED <<artifact, run_vars, settings_vars>>
  /\ sessions' = delete_session(sessions, s)
  /\ call' = [NoCall EXCEPT !.op = "delete_session", !.sid = s,
                            !.ok = sessions[s].exists]

\* ExcelSessionManager.list_user_sessions(user_id, limit)
ApiListSessions ==
  /\ UNCHANGED <<sessions, artifact, run_vars, settings_vars>>
  /\ \E user_id \in {0} \cup Users, limit \in 0..MaxSessions :
       \E out \in list_user_sessions(sessions, user_id, limit) :
         call' = [NoCall EXCEPT !.op = "list_user_sessions", !.key = user_id,
                                !.arg = limit, !.listed = out]

\* ------------------------------------------------- direct calls: artifact
\* The keywords_data a caller hands to save_keywords_to_session: up to two
\* accepted keywords
AcceptedTerms == {Keyword, NACell}

NewRows == UNION {[1..n -> AcceptedTerms] : n \in 0..2}

\* ExcelProcessor.save_keywords_to_session(session_id, keywords_data), for
\* the keywords_data offered and an artifact of at most max_len rows
ApiSaveKeywords(s, offered, max_len) ==
  /\ UNCHANGED <<sessions, run_vars, settings_vars>>
  /\ \E rows \in offered, read_ok \in BOOLEAN, write_ok \in BOOLEAN :
       /\ Len(artifact[s].rows) + Len(rows) <= max_len
       /\ artifact' = [artifact EXCEPT ![s] =
            save_keywords_to_session(@, rows, read_ok, write_ok)]
       /\ call' = [NoCall EXCEPT !.op = "save_keywords_to_session", !.sid = s,
                                 !.rows = rows, !.read_ok = read_ok,
                                 !.write_ok = write_ok]

\* ExcelProcessor.finalize_session(session_id): the summary it returns; arg
\* counts the calls made in a row for the same session (1, then 2)
ApiFinalize(s) ==
  /\ UNCHANGED <<sessions, artifact, run_vars, settings_vars>>
  /\ \E read_ok \in BOOLEAN :
       call' = [NoCall EXCEPT
         !.op = "finalize_session", !.sid = s, !.read_ok = read_ok,
         !.value = finalize_session(artifact[s], read_ok),
         !.arg = IF call.op = "finalize_session" /\ call.sid = s THEN 2 ELSE 1]

\* ---------------------------------------------- direct calls: chunk reader
\* read_excel_chunk_with_calamine(filename, chunk_size, reset_position): key
\* is the cursor the read starts from, ok the reset_position argument
ApiReadChunk(files, sizes) ==
  /\ \E file \in files, chunk_size \in sizes, reset_position \in BOOLEAN :
       LET pos == IF reset_position
                  THEN reset_excel_position(current_row_position)
                  ELSE current_row_position
           got == read_excel_chunk_with_calamine(file, pos, chunk_size)
       IN /\ current_row_position' = got.position
          /\ call' = [NoCall EXCEPT
               !.op = "read_excel_chunk_with_calamine", !.file = file,
               !.arg = chunk_size, !.ok = reset_position, !.key = pos,
               !.rows = got.cells, !.start_row = got.start_row,
               !.end_row = got.end_row]
  /\ UNCHANGED <<sessions, artifact, session_id, current_session_id, ui_data,
                 pc, run, events, settings_vars>>

\* has_more_chunks(excel_file_path): key is the cursor it found, ok its answer
ApiHasMoreChunks(files) ==
  /\ \E file \in files :
       call' = [NoCall EXCEPT
         !.op = "has_more_chunks", !.file = file,
         !.key = current_row_position,
         !.ok = has_more_chunks(file, current_row_position)]
  /\ UNCHANGED <<run_vars, sessions, artifact, settings_vars>>

\* reset_excel_position()
ApiResetPosition ==
  /\ current_row_position' = reset_excel_position(current_row_position)
  /\ call' = [NoCall EXCEPT !.op = "reset_excel_position"]
  /\ UNCHANGED <<sessions, artifact, session_id, current_session_id, ui_data,
                 pc, run, events, settings_vars>>

\* prepare_keywords_for_analysis(chunk_df, ...) on a chunk whose columns are
\* columns: key is the keyword column it reads, value the category column
ApiResolveColumns(headers) ==
  /\ \E columns \in headers :
       call' = [NoCall EXCEPT
         !.op = "prepare_keywords_for_analysis", !.rows = columns,
         !.key = ResolveColumns(columns, 1, 0, 0).keyword_column,
         !.value = ResolveColumns(columns, 1, 0, 0).category_column]
  /\ UNCHANGED <<run_vars, sessions, artifact, settings_vars>>

\* ------------------------------------------------- direct calls: settings
\* The default_value a caller of get_setting supplies
DefaultValue == 0

IsActiveSetting(db, key) == db[key].exists /\ db[key].is_active

\* WorkflowSettingsManager.get_setting: the active row of the table when the
\* database answers and has one; in every other case the fallback file's
\* value for the key, or the default (a file that cannot be read loads as {})
get_setting(db, file, key, default_value, db_ok, read_ok) ==
  IF db_ok /\ IsActiveSetting(db, key) THEN db[key].setting_value
  ELSE IF read_ok /\ file[key] # 0 THEN file[key]
  ELSE default_value

\* save_setting, lines 101-127: the row is updated or created, and active
SaveToDb(db, key, value) ==
  [db EXCEPT ![key] =
     [exists |-> TRUE, setting_value |-> value, is_active |-> TRUE]]

\* save_setting, lines 135-142: the file's map is loaded ({} when it cannot
\* be read), the key set, and the map written back (a failed write is
\* logged and leaves the file as it was)
SaveToFile(file, key, value, read_ok, write_ok) ==
  IF ~write_ok THEN file
  ELSE [(IF read_ok THEN file ELSE [k \in Keys |-> 0]) EXCEPT ![key] = value]

\* WorkflowSettingsManager.save_setting(workflow_name, key, value): it
\* returns True on either path. last_saved notes the value for the claims
\* about later reads, and forgets what it noted when a file fault lost it.
SaveSetting ==
  /\ UNCHANGED <<sessions, artifact, run_vars>>
  /\ \E key \in Keys, value \in Values, db_ok \in BOOLEAN :
       IF db_ok
       THEN /\ settings_db' = SaveToDb(settings_db, key, value)
            /\ UNCHANGED settings_file
            /\ last_saved' = [last_saved EXCEPT ![key] = value]
            /\ call' = [NoCall EXCEPT !.op = "save_setting", !.key = key,
                                      !.arg = value]
       ELSE \E read_ok \in BOOLEAN, write_ok \in BOOLEAN :
            /\ settings_file' =
                 SaveToFile(settings_file, key, value, read_ok, write_ok)
            /\ UNCHANGED settings_db
            /\ last_saved' = IF read_ok /\ write_ok
                             THEN [last_saved EXCEPT ![key] = value]
                             ELSE [k \in Keys |-> 0]
            /\ call' = [NoCall EXCEPT !.op = "save_setting", !.key = key,
                                      !.arg = value, !.db_ok = FALSE,
                                      !.read_ok = read_ok,
                                      !.write_ok = write_ok]

\* WorkflowSettingsManager.get_setting(workflow_name, key, default_value)
GetSetting ==
  /\ UNCHANGED <<sessions, artifact, run_vars, settings_vars>>
  /\ \E key \in Keys, db_ok \in BOOLEAN, read_ok \in BOOLEAN :
       /\ (db_ok /\ IsActiveSetting(settings_db, key)) => read_ok
       /\ call' = [NoCall EXCEPT
            !.op = "get_setting", !.key = key, !.db_ok = db_ok,
            !.read_ok = read_ok,
            !.value = get_setting(settings_db, settings_file, key,
                                  DefaultValue, db_ok, read_ok)]

\* WorkflowSettingsManager.delete_setting(workflow_name, key): the row is
\* made inactive when the database answers and has one; else the key is
\* taken out of the fallback file when that holds it
DeleteSetting ==
  /\ UNCHANGED <<sessions, artifact, run_vars>>
  /\ \E key \in Keys, db_ok \in BOOLEAN :
       /\ last_saved' = [last_saved EXCEPT ![key] = 0]
       /\ IF db_ok /\ settings_db[key].exists
          THEN /\ settings_db' = [settings_db EXCEPT ![key].is_active = FALSE]
               /\ UNCHANGED settings_file
               /\ call' = [NoCall EXCEPT !.op = "delete_setting",
                                         !.key = key]
          ELSE \E read_ok \in BOOLEAN, write_ok \in BOOLEAN :
               /\ UNCHANGED settings_db
               /\ settings_file' =
                    IF read_ok /\ write_ok
                    THEN [settings_file EXCEPT ![key] = 0]
                    ELSE settings_file
               /\ call' = [NoCall EXCEPT
                    !.op = "delete_setting", !.key = key, !.db_ok = db_ok,
                    !.read_ok = read_ok, !.write_ok = write_ok,
                    !.ok = read_ok /\ settings_file[key] # 0]

\* ------------------------------------------------------------ specifications
\* The steps of a Run once started, and the page's buttons
Step(w) ==
  \/ CreateSession(w)
  \/ SetProcessing(w)
  \/ OpenFile(w)
  \/ HasMoreChunks(w)
  \/ ReadChunk(w)
  \/ AnalyzeChunk(w)
  \/ Finalize(w)
  \/ RefreshAfterRun(w)
  \/ SelectSession(w)
  \/ ClearResults(w)

\* One browser session, whose Runs follow one another
Next ==
  \/ StartRun(1, Files, ChunkInputs, MaxRuns)
  \/ Step(1)

Spec == Init /\ [][Next]_vars

\* The statements of run, from its first line to its last yield
RunSteps(w) ==
  \/ CreateSession(w)
  \/ SetProcessing(w)
  \/ OpenFile(w)
  \/ HasMoreChunks(w)
  \/ ReadChunk(w)
  \/ AnalyzeChunk(w)
  \/ Finalize(w)

\* The page iterates the stream of a Run to its end (the for loop at line
\* 454), and every call run makes returns or raises: a Run that can take a
\* step takes it
SpecLive == Spec /\ WF_vars(RunSteps(1))

\* Several browser sessions, one Run in flight at a time; the uploads hold
\* keywords and NaN cells
Alone(w) == \A v \in Workflows : v # w => pc[v] = "idle"

TwoTermFiles ==
  {f \in Files : \A i \in 1..Len(f.rows) : f.rows[i] \in {Keyword, NaNCell}}

NextSessions ==
  \E w \in Workflows :
    /\ Alone(w)
    /\ \/ StartRun(w, TwoTermFiles, ChunkInputs, MaxSessions)
       \/ Step(w)

SpecSessions == Init /\ [][NextSessions]_vars

\* Browser sessions run in threads of one process: their Runs interleave.
\* The uploads are sheets of usable keywords, read MaxChunk rows at a time.
KeywordSheets ==
  {f \in Files : f.kind = "readable" /\ \A i \in 1..Len(f.rows) : f.rows[i] = Keyword}

NextConcurrent ==
  \E w \in Workflows :
    \/ StartRun(w, KeywordSheets, {[num |-> TRUE, val |-> MaxChunk]}, MaxSessions)
    \/ Step(w)

SpecConcurrent == Init /\ [][NextConcurrent]_vars

\* Runs that follow one another in one process, some left unfinished by
\* their consumer
NextAbandon ==
  \E w \in Workflows :
    /\ Alone(w)
    /\ \/ StartRun(w, KeywordSheets \cup {NoFileChosen},
                    {[num |-> TRUE, val |-> MaxChunk]}, MaxSessions)
       \/ Step(w)
       \/ AbandonRun(w)

SpecAbandon == Init /\ [][NextAbandon]_vars

\* The functions of the chunk reader, called one after another on sheets
\* that can be loaded and on a file that cannot
ReaderFiles ==
  {f \in Files : f.kind \in {"readable", "unparsable"}}

NextReader ==
  \/ ApiReadChunk({f \in ReaderFiles : f.kind = "readable"}, 0..MaxChunk)
  \/ ApiHasMoreChunks(ReaderFiles)
  \/ ApiResetPosition

SpecReader == Init /\ [][NextReader]_vars

\* prepare_keywords_for_analysis called on sheets of 1 to MaxCols columns,
\* no two of the same name
Headers ==
  {h \in UNION {[1..n -> ColumnNames] : n \in 1..MaxCols} :
     \A i, j \in 1..Len(h) : h[i] = h[j] => i = j}

NextColumns == ApiResolveColumns(Headers)

SpecColumns == Init /\ [][NextColumns]_vars

\* delete_session called on a session while the Run that created it is
\* under way
DeleteInRun(s) ==
  /\ \E w \in Workflows : run[w].session = s /\ pc[w] \notin {"idle", "done"}
  /\ ApiDeleteSession(s)

\* One browser session, and a delete of the session of its Run
NextDeleteInRun ==
  \/ StartRun(1, Files, ChunkInputs, MaxRuns)
  \/ Step(1)
  \/ \E s \in SessionIds : DeleteInRun(s)

SpecDeleteInRun == Init /\ [][NextDeleteInRun]_vars

\* The artifact methods of ExcelProcessor, called one after another
NextArtifact ==
  \E s \in SessionIds :
    \/ ApiSaveKeywords(s, NewRows, MaxArtifact)
    \/ ApiFinalize(s)

SpecArtifact == Init /\ [][NextArtifact]_vars

\* The methods of ExcelSessionManager, called one after another, and the
\* first save of a session's artifact
NextStore ==
  \/ ApiCreateSession
  \/ ApiListSessions
  \/ \E s \in SessionIds :
       \/ ApiUpdateStatus(s)
       \/ ApiDeleteSession(s)
       \/ ApiSaveKeywords(s, {<<Keyword>>}, 1)

SpecStore == Init /\ [][NextStore]_vars

\* The methods of WorkflowSettingsManager, called one after another
NextSettings == SaveSetting \/ GetSetting \/ DeleteSetting

SpecSettings == Init /\ [][NextSettings]_vars

\* ------------------------------------------------------------------ claims
Ceil(n, c) == (n + c - 1) \div c

Last(seq) == seq[Len(seq)]

HasEvent(w, kind, chunk) ==
  \E i \in 1..Len(events[w]) : events[w][i] = Event(kind, chunk)

\* The chunk loop of w has run to exhaustion of a readable source
Exhausted(w) ==
  /\ run[w].file.kind = "readable"
  /\ \/ pc[w] = "finalize"
     \/ pc[w] = "done" /\ events[w] # <<>> /\ Last(events[w]).kind = "final"

\* chunks are ranges [start, end) that tile [0, n) in steps of at most c
Partitions(chunks, n, c) ==
  /\ Len(chunks) = Ceil(n, c)
  /\ \A i \in 1..Len(chunks) :
       /\ chunks[i][1] < chunks[i][2]
       /\ chunks[i][2] - chunks[i][1] <= c
       /\ chunks[i][1] = IF i = 1 THEN 0 ELSE chunks[i - 1][2]
  /\ chunks # <<>> => Last(chunks)[2] = n

\* C1: with no other Run interleaved, the chunk reads of a Run that exhausts
\* a source of N data rows with chunk size C > 0 are exactly ceil(N/C)
\* chunks, each of at most C rows, whose ranges [start_row, end_row) tile
\* [0, N) with no gap and no overlap; while the loop runs, the chunks read so
\* far are a gapless prefix of that tiling.
C1_ChunksPartitionRows ==
  \A w \in Workflows :
    LET r == run[w]
        n == TotalRows(r.file)
    IN /\ \A i \in 1..Len(r.chunks) :
            /\ r.chunks[i][1] = IF i = 1 THEN 0 ELSE r.chunks[i - 1][2]
            /\ r.chunks[i][2] = Min(r.chunks[i][1] + r.chunk_size_int, n)
            /\ r.chunks[i][1] < r.chunks[i][2]
       /\ Exhausted(w) => Partitions(r.chunks, n, r.chunk_size_int)

\* C1 witness: a source of 3 rows read 2 rows at a time came out as the
\* chunks [0,2) and [2,3) (the 100, 100, 50 shape: a short last chunk)
C1_Witness ==
  \E w \in Workflows :
    /\ Exhausted(w)
    /\ TotalRows(run[w].file) = 3 /\ run[w].chunk_size_int = 2
    /\ run[w].chunks = <<(<<0, 2>>), (<<2, 3>>)>>

\* The cells the claim counts as blank or null: '', NaN, None
BlankCells == {EmptyCell, NaNCell, NoneCell}

ChunkCells(r, i) == SubSeq(r.file.rows, r.chunks[i][1] + 1, r.chunks[i][2])

AllBlank(cells) == \A i \in 1..Len(cells) : cells[i] \in BlankCells

InSeq(x, seq) == \E i \in 1..Len(seq) : seq[i] = x

\* C10 (in every state): a chunk read whose terms are all blank or null has
\* a "skipped" event, was never handed to the analyzer, and has no
\* chunk-started or chunk-completed event.
C10_BlankChunkNotAnalyzed ==
  \A w \in Workflows : \A k \in 1..Len(run[w].chunks) :
    AllBlank(ChunkCells(run[w], k)) =>
      /\ HasEvent(w, "skipped", k)
      /\ ~InSeq(k, run[w].analyzer_calls)
      /\ ~HasEvent(w, "chunk_started", k)
      /\ ~HasEvent(w, "chunk_completed", k)

\* C10 (in every step): the step that reads an all-blank chunk leaves the
\* cursor at the chunk's end_row, past its rows, emits the skipped event,
\* merges nothing into any artifact, and returns to the loop test.
C10_SkipStep ==
  \A w \in Workflows :
    (/\ pc[w] = "read"
     /\ Len(run'[w].chunks) = Len(run[w].chunks) + 1
     /\ AllBlank(ChunkCells(run'[w], Len(run'[w].chunks))))
    => /\ current_row_position' = Last(run'[w].chunks)[2]
       /\ current_row_position' > current_row_position
       /\ events'[w] = Append(events[w], Event("skipped", run[w].chunk_number))
       /\ artifact' = artifact
       /\ run'[w].total_keywords = run[w].total_keywords
       /\ pc'[w] = "has_more"

\* C10: for a chunk made only of blank or null terms no analyzer call is
\* made, the cursor still advances past its rows, a "skipped" event is
\* emitted, nothing is merged, and the Run goes on to the next chunk.
C10_BlankChunkSkipped == [](C10_BlankChunkNotAnalyzed) /\ [][C10_SkipStep]_vars

\* C10 witness: chunk 1 was all blank and skipped, and the Run went on to
\* hand chunk 2 to the analyzer
C10_Witness ==
  \E w \in Workflows :
    /\ Len(run[w].chunks) = 2
    /\ AllBlank(ChunkCells(run[w], 1))
    /\ HasEvent(w, "skipped", 1)
    /\ run[w].analyzer_calls = <<2>>

\* C2: update_session_status rejects backward transitions: in no step does
\* a session whose stored status is completed or failed come to hold pending
\* or processing.
C2_NoBackwardTransition ==
  [][\A s \in SessionIds :
       (sessions[s].exists /\ sessions[s].status \in Terminal)
       => sessions'[s].status \in Terminal]_vars

\* The cursor position a Run in its chunk loop left behind: the end_row of
\* its last chunk, or 0 before its first read
OwnCursor(w) ==
  IF run[w].chunks = <<>> THEN 0 ELSE Last(run[w].chunks)[2]

InChunkLoop(w) == pc[w] \in {"has_more", "read", "analyze"}

\* C3: two Runs on different sessions that interleave are independent: the
\* cursor a Run in its chunk loop finds is the one its own reads left (no
\* other Run has reset or advanced it), and the chunks of a Run that
\* exhausts its source tile [0, N_i) with no gap and no overlap.
C3_ConcurrentRunsIndependent ==
  \A w \in Workflows :
    /\ InChunkLoop(w) => current_row_position = OwnCursor(w)
    /\ Exhausted(w) =>
         Partitions(run[w].chunks, TotalRows(run[w].file), run[w].chunk_size_int)

\* C4: an analyzer failure on one chunk is isolated to that chunk: every
\* chunk handed to the analyzer ends in a chunk-completed or a chunk-failed
\* event, and a Run that got as far as analysing chunks ends with the
\* success event, having read every chunk of its source.
C4_AnalyzerFailureIsolated ==
  \A w \in Workflows :
    (pc[w] = "done" /\ run[w].analyzer_calls # <<>>) =>
      /\ Last(events[w]).kind = "final"
      /\ \A i \in 1..Len(run[w].analyzer_calls) :
           \/ HasEvent(w, "chunk_completed", run[w].analyzer_calls[i])
           \/ HasEvent(w, "chunk_failed", run[w].analyzer_calls[i])
      /\ Partitions(run[w].chunks, TotalRows(run[w].file), run[w].chunk_size_int)

\* C5: a Run in which the durable write of the accumulator failed (and kept
\* failing) ends failed: its last status update is "failed", it issues no
\* "completed", and its stream ends with the error event.
C5_PersistenceFailureFailsSession ==
  \A w \in Workflows :
    (pc[w] = "done" /\ run[w].save_failed) =>
      /\ Last(events[w]).kind = "error"
      /\ run[w].status_writes # <<>>
      /\ Last(run[w].status_writes).status = "failed"
      /\ \A i \in 1..Len(run[w].status_writes) :
           run[w].status_writes[i].status # "completed"

\* C6: a Run whose source cannot be read (no file, zero bytes, unparsable
\* or no usable sheet) ends with the terminal error event after a "failed"
\* status update, and never issues "completed".
C6_UnreadableSourceFails ==
  \A w \in Workflows :
    (pc[w] = "done" /\ run[w].session # 0 /\ run[w].file.kind # "readable") =>
      /\ Last(events[w]).kind = "error"
      /\ run[w].status_writes # <<>>
      /\ Last(run[w].status_writes).status = "failed"
      /\ \A i \in 1..Len(run[w].status_writes) :
           run[w].status_writes[i].status # "completed"

\* The terminal status updates a Run has issued
TerminalWrites(w) ==
  {i \in 1..Len(run[w].status_writes) :
     run[w].status_writes[i].status \in Terminal}

\* C7: within a Run its session goes pending -> processing -> one terminal
\* state: pending from creation until the processing update, processing
\* while chunks are read, and at most one terminal status written, with no
\* status write after it.
C7_RunLifecycle ==
  \A w \in Workflows :
    run[w].session # 0 =>
      /\ pc[w] = "set_processing" => sessions[run[w].session].status = "pending"
      /\ pc[w] \in {"open", "has_more", "read", "analyze", "finalize"}
           => sessions[run[w].session].status = "processing"
      /\ Cardinality(TerminalWrites(w)) <= 1
      /\ \A i \in TerminalWrites(w) : i = Len(run[w].status_writes)

\* C8: in every state of every session record, results_file_path and
\* completed_at are non-null only if status = completed.
C8_ResultsOnlyWhenCompleted ==
  \A s \in SessionIds :
    (sessions[s].exists
     /\ (sessions[s].results_file_path # NoPath \/ sessions[s].completed_at))
    => sessions[s].status = "completed"

\* C9: once a Run has emitted its terminal event, the session it created is
\* in a terminal status: failed after an error event, completed after the
\* success event, never still pending or processing.
C9_RunLeavesTerminalStatus ==
  \A w \in Workflows :
    (pc[w] = "done" /\ run[w].session # 0) =>
      /\ sessions[run[w].session].status \in Terminal
      /\ Last(events[w]).kind = "final"
           => sessions[run[w].session].status = "completed"
      /\ Last(events[w]).kind = "error"
           => sessions[run[w].session].status = "failed"

\* C11: whenever save_keywords_to_session(session, newRows) has written, the
\* rows of the session's artifact are its previous rows, unmodified and in
\* place, followed by newRows (append-only, no deduplication).
C11_SaveAppendsRows ==
  [][(call'.op = "save_keywords_to_session" /\ call'.write_ok)
     => artifact'[call'.sid].rows = artifact[call'.sid].rows \o call'.rows]_vars

\* C12: every Run started with a generated name comes to store a session
\* under that name (a colliding name gets a numeric suffix, so the create
\* succeeds), and no two active records hold the same name.
C12_CollidingNamesBothStored ==
  /\ \A s, t \in SessionIds :
       (s # t /\ sessions[s].exists /\ sessions[t].exists
        /\ sessions[s].is_active /\ sessions[t].is_active)
       => sessions[s].session_name # sessions[t].session_name
  /\ \A w \in Workflows :
       (pc[w] \notin {"idle", "create"} /\ run[w].chunk_size.num)
       => /\ run[w].session # 0
          /\ sessions[run[w].session].session_name = run[w].session_name

Range(seq) == {seq[i] : i \in 1..Len(seq)}

\* C13: delete_session(id) on an existing session sets is_active = false
\* and changes nothing else: the record stays in the table with its status,
\* results_file_path, total_keywords and completed_at, every other record
\* and every artifact file is as before, and no list_user_sessions call
\* returns the session any more.
C13_DeleteIsSoft ==
  [][(call'.op = "delete_session" /\ sessions[call'.sid].exists)
     => LET sid == call'.sid IN
        /\ call'.ok
        /\ sessions'[sid] = [sessions[sid] EXCEPT !.is_active = FALSE]
        /\ sessions'[sid].exists
        /\ \A t \in SessionIds \ {sid} : sessions'[t] = sessions[t]
        /\ artifact' = artifact
        /\ \A u \in {0} \cup Users, l \in 0..MaxSessions :
             \A out \in list_user_sessions(sessions', u, l) :
               sid \notin Range(out)]_vars

\* C13 witness: a completed session with its results path, total and
\* artifact file has been deleted
C13_Witness ==
  /\ call.op = "delete_session" /\ call.ok
  /\ LET r == sessions[call.sid] IN
       /\ r.exists /\ ~r.is_active
       /\ r.status = "completed" /\ r.results_file_path = call.sid
       /\ r.total_keywords = 1 /\ r.completed_at
  /\ artifact[call.sid].exists

\* C14: the list list_user_sessions(user_id, limit) returns holds only
\* active sessions (of that owner when user_id is given), each once, newest
\* first, min(limit, number of such sessions) of them, and no session left
\* out is newer than one returned.
C14_ListNewestActive ==
  call.op = "list_user_sessions" =>
    LET out == call.listed
        user == call.key
        wanted == {s \in SessionIds :
                     /\ sessions[s].exists /\ sessions[s].is_active
                     /\ user # 0 => sessions[s].user_id = user}
    IN /\ Range(out) \subseteq wanted
       /\ \A i, j \in 1..Len(out) : i # j => out[i] # out[j]
       /\ \A i, j \in 1..Len(out) :
            i < j => sessions[out[i]].created_at >= sessions[out[j]].created_at
       /\ Len(out) = Min(call.arg, Cardinality(wanted))
       /\ \A s \in wanted \ Range(out), i \in 1..Len(out) :
            sessions[s].created_at <= sessions[out[i]].created_at

\* C14 witness: with two active sessions of one owner created at different
\* times, a list of limit 1 for that owner returned the newer one alone
C14_Witness ==
  /\ call.op = "list_user_sessions" /\ call.arg = 1 /\ call.key # 0
  /\ \E s, t \in SessionIds :
       /\ sessions[s].exists /\ sessions[s].is_active
       /\ sessions[t].exists /\ sessions[t].is_active
       /\ sessions[s].user_id = call.key /\ sessions[t].user_id = call.key
       /\ sessions[s].created_at > sessions[t].created_at
       /\ call.listed = <<s>>

ChunkEvents == {"chunk_started", "chunk_completed", "skipped"}

\* C15: within every Run the chunks come in increasing row-range order, each
\* starting at the end_row of the one before; the chunks handed to the
\* analyzer come one at a time in increasing order; and the chunk events
\* (started, completed, skipped) are emitted in the order of the chunks.
C15_ChunksInOrder ==
  \A w \in Workflows :
    LET r == run[w]
        ev == events[w]
    IN /\ \A i \in 2..Len(r.chunks) : r.chunks[i][1] = r.chunks[i - 1][2]
       /\ \A i, j \in 1..Len(r.analyzer_calls) :
            i < j => r.analyzer_calls[i] < r.analyzer_calls[j]
       /\ \A i, j \in 1..Len(ev) :
            (i < j /\ ev[i].kind \in ChunkEvents /\ ev[j].kind \in ChunkEvents)
            => ev[i].chunk <= ev[j].chunk

C17_CreateRejectsNonPositive ==
  [][\A w \in Workflows :
       (/\ pc[w] = "create" /\ pc'[w] # "create"
        /\ run[w].chunk_size.num /\ run[w].chunk_size.val <= 0)
       => (sessions' = sessions /\ pc'[w] = "done")]_vars

\* C18: the chunk_size stored on every session record is > 0, and a Run
\* given a chunk size that is <= 0 or not a number goes on to process its
\* source with the default of 100 rows per chunk.
C18_ChunkSizeNormalized ==
  /\ \A s \in SessionIds : sessions[s].exists => sessions[s].chunk_size > 0
  /\ \A w \in Workflows :
       (/\ pc[w] \notin {"idle", "create", "set_processing"}
        /\ ~run[w].chunk_size.num \/ run[w].chunk_size.val <= 0)
       => (run[w].session # 0 /\ run[w].chunk_size_int = DefaultChunkSize)

\* C19: a get_setting (its fallback file readable) for a key whose last
\* save_setting returned success and was not lost, with no delete of the key
\* since, returns the saved value, whichever store served the write and
\* whichever serves the read.
C19_ReadYourWrite ==
  (call.op = "get_setting" /\ call.read_ok /\ last_saved[call.key] # 0)
  => call.value = last_saved[call.key]

\* C20: a get_setting that finds the database reachable and holding no
\* active value for the key returns the caller's default, whatever the
\* fallback file holds.
C20_FallbackOnlyWhenDbDown ==
  (call.op = "get_setting" /\ call.db_ok
   /\ ~IsActiveSetting(settings_db, call.key))
  => call.value = DefaultValue

\* C21: a chunk read is a function of (source, caller-held cursor, chunk
\* size): two chunk reads, of one Run or of two, on the same source with the
\* same chunk size, each issued by a Run whose own reads had left the cursor
\* at the same row, return the same row range.
C21_ReadIsPureFunction ==
  \A w, v \in Workflows :
    \A i \in 1..Len(run[w].chunks), j \in 1..Len(run[v].chunks) :
      (/\ run[w].file = run[v].file
       /\ run[w].chunk_size_int = run[v].chunk_size_int
       /\ (IF i = 1 THEN 0 ELSE run[w].chunks[i - 1][2])
          = (IF j = 1 THEN 0 ELSE run[v].chunks[j - 1][2]))
      => run[w].chunks[i] = run[v].chunks[j]

\* C22: when a Run has just emitted a "chunk completed" event, the
\* total_keywords stored on its session record equals the running count of
\* the items accepted in the chunks completed so far.
C22_TotalUpdatedPerChunk ==
  \A w \in Workflows :
    (/\ run[w].session # 0
     /\ events[w] # <<>>
     /\ Last(events[w]).kind = "chunk_completed")
    => sessions[run[w].session].total_keywords = run[w].total_keywords

\* C23: a Run that has emitted its terminal success event finalized in
\* order before it: the summary was produced, the last status update it
\* issued was "completed", and the record of its session holds the status
\* completed, the Run's total of accepted items and, when the artifact file
\* exists, its locator.
C23_FinalizeThenCompleted ==
  \A w \in Workflows :
    (/\ pc[w] = "done" /\ run[w].session # 0
     /\ Last(events[w]).kind = "final")
    => /\ run[w].summary # NoTotal
       /\ Last(run[w].status_writes).status = "completed"
       /\ sessions[run[w].session].status = "completed"
       /\ sessions[run[w].session].total_keywords = run[w].total_keywords
       /\ artifact[run[w].session].exists
            => sessions[run[w].session].results_file_path = run[w].session

\* C24: every Run begins at row 0 of its source, whatever cursor the Runs
\* before it in the process left behind (completed, failed, or abandoned
\* mid-file): the cursor a Run finds at its first loop test is 0, and the
\* first chunk it reads starts at row 0.
C24_RunStartsAtRowZero ==
  \A w \in Workflows :
    /\ (InChunkLoop(w) /\ run[w].chunks = <<>> /\ run[w].chunk_number <= 1)
         => current_row_position = 0
    /\ run[w].chunks # <<>> => run[w].chunks[1][1] = 0

\* C24 witness: an earlier Run was abandoned mid-file, leaving the cursor
\* past row 0, and the first chunk of a later Run starts at row 0
C24_Witness ==
  \E w, v \in Workflows :
    /\ w # v /\ pc[v] = "idle"
    /\ run[v].chunks # <<>>
    /\ Last(run[v].chunks)[2] > 0
    /\ Last(run[v].chunks)[2] < TotalRows(run[v].file)
    /\ run[w].session > run[v].session
    /\ run[w].chunks # <<>> /\ run[w].chunks[1] = <<0, MaxChunk>>

\* C25: a chunk read at cursor c with chunk size C on a source of N rows
\* returns exactly the rows [c, min(c+C, N)), reports (c, min(c+C, N)) and
\* moves the cursor to min(c+C, N); when c >= N it returns an empty chunk and
\* leaves the cursor at c; has_more_chunks answers true exactly when c < N
\* and moves nothing.
C25_ReadReturnsRange ==
  [][LET c == call'.key
         n == Len(call'.file.rows)
         e == Min(c + call'.arg, n)
     IN /\ call'.op = "read_excel_chunk_with_calamine" =>
             /\ c = IF call'.ok THEN 0 ELSE current_row_position
             /\ c >= n => (call'.rows = <<>> /\ current_row_position' = c)
             /\ c < n =>
                  /\ Len(call'.rows) = e - c
                  /\ \A i \in 1..(e - c) : call'.rows[i] = call'.file.rows[c + i]
                  /\ call'.start_row = c /\ call'.end_row = e
                  /\ current_row_position' = e
        /\ call'.op = "has_more_chunks" =>
             /\ call'.ok <=> current_row_position < n
             /\ current_row_position' = current_row_position]_vars

\* C25 witness: on a sheet of 3 rows read 2 at a time, after the short last
\* chunk [2,3) a further read found the cursor at 3, returned no rows and
\* left the cursor at 3
C25_Witness ==
  /\ call.op = "read_excel_chunk_with_calamine"
  /\ Len(call.file.rows) = 3 /\ call.arg = 2
  /\ call.key = 3 /\ ~call.ok
  /\ call.rows = <<>>
  /\ current_row_position = 3

\* The first column, in source order, whose name satisfies Match; 0 if none
FirstColumn(columns, Match(_)) ==
  IF \E i \in 1..Len(columns) : Match(columns[i])
  THEN CHOOSE i \in 1..Len(columns) :
         /\ Match(columns[i])
         /\ \A j \in 1..(i - 1) : ~Match(columns[j])
  ELSE 0

\* C26: column resolution picks the first match: the term column is the
\* first column whose lower-cased name contains term, keyword, phrase or word,
\* or the first column of the sheet if none does; the category column is the
\* first column whose name contains a category synonym, and the constant
\* 'general' (no column) when none does.
C26_FirstMatchingColumn ==
  call.op = "prepare_keywords_for_analysis" =>
    /\ call.key = IF FirstColumn(call.rows, IsKeywordColumn) = 0 THEN 1
                  ELSE FirstColumn(call.rows, IsKeywordColumn)
    /\ call.value = FirstColumn(call.rows, IsCategoryColumn)

\* C27: cancellation is observed between chunks: whenever a Run has done
\* with chunk k and is about to test for and fetch chunk k+1, it is at a
\* point where a stop requested while chunk k was processed takes effect,
\* so that chunk k+1 is not fetched.
C27_CancellationBetweenChunks ==
  \A w \in Workflows :
    (pc[w] = "has_more" /\ run[w].chunk_number >= 1) => AtYield(w)

\* C28: a session deleted while its Run was in progress stays inactive and
\* absent from list_user_sessions, get_session_by_id and
\* get_session_by_name, while the Run goes on to its end and the status
\* updates it issues after the delete are stored on the record: once the Run
\* has ended, the record holds the last status the Run wrote.
C28_DeleteDuringRun ==
  \A w \in Workflows :
    LET s == run[w].session IN
    (s # 0 /\ pc[w] = "done" /\ ~sessions[s].is_active) =>
      /\ get_session_by_id(sessions, s) = 0
      /\ get_session_by_name(sessions, sessions[s].session_name) # s
      /\ \A u \in Users :
           \A l \in list_user_sessions(sessions, u, MaxSessions) : ~InSeq(s, l)
      /\ run[w].status_writes # <<>>
      /\ sessions[s].status = Last(run[w].status_writes).status

\* C29: every status update a Run issues (processing, completed, failed) is
\* addressed to the session record this Run created, and no step of the Run
\* changes the record of another session, also when the workflow instance
\* loaded another session or executed a Run before.
C29_UpdatesOwnSession ==
  [][\A w \in Workflows :
       (pc[w] \notin {"idle", "done"} /\ pc'[w] # pc[w] /\ run'[w].session # 0)
       => /\ \A i \in 1..Len(run'[w].status_writes) :
               run'[w].status_writes[i].target = run'[w].session
          /\ \A s \in SessionIds :
               s # run'[w].session => sessions'[s] = sessions[s]]_vars

\* C30: the running total of a Run and its result artifact never diverge:
\* between chunks and at completion the total the Run holds, which is the
\* total_keywords its completed update stores, equals the number of rows of
\* the session's artifact (none when there is no file), also after a merge
\* whose write failed or whose read of the existing artifact failed.
C30_TotalMatchesArtifact ==
  \A w \in Workflows :
    (run[w].session # 0 /\ pc[w] \in {"has_more", "finalize", "done"}) =>
      run[w].total_keywords =
        IF artifact[run[w].session].exists
        THEN Len(artifact[run[w].session].rows) ELSE 0

\* C31: a name returned by generate_session_name can always be stored: in
\* every state of the table, a create_session called next with the name
\* generate_session_name returns does not raise, also when a soft-deleted
\* session holds that name.
C31_GeneratedNameStorable ==
  ~CreateRaises(sessions, generate_session_name(sessions))

\* C32: when two callers generate a session name for the same file, topic
\* and minute and each then create a session, under every interleaving both
\* creations succeed and the two stored names are distinct.
C32_ConcurrentCreatesDistinct ==
  \A w, v \in Workflows :
    (/\ w # v
     /\ pc[w] \notin {"idle", "create"}
     /\ pc[v] \notin {"idle", "create"})
    => /\ run[w].session # 0
       /\ run[v].session # 0
       /\ sessions[run[w].session].session_name
            # sessions[run[v].session].session_name

TerminalEvents == {"final", "error"}

\* C33 (in every state): the stream of a Run under way holds no terminal
\* event; the stream of a Run that has ended holds exactly one, the success
\* summary or an error event, and it is the last event.
C33_OneTerminalEvent ==
  \A w \in Workflows :
    LET terminal == {i \in 1..Len(events[w]) : events[w][i].kind \in TerminalEvents}
    IN /\ pc[w] \notin {"idle", "done"} => terminal = {}
       /\ pc[w] = "done" => terminal = {Len(events[w])} /\ events[w] # <<>>

\* C33 (in every step): once a Run has emitted its terminal event, nothing
\* more is emitted, no chunk is read, analyzed or merged and no status is
\* written: the cursor, the artifacts and the session records stay as they
\* are, and the only step left is the page's reload of the session.
C33_NothingAfterTerminal ==
  \A w \in Workflows :
    pc[w] = "done" =>
      /\ pc'[w] \in {"done", "idle"}
      /\ events'[w] = events[w] \/ events'[w] = <<>>
      /\ run'[w] = run[w] \/ run'[w] = IdleRun
      /\ current_row_position' = current_row_position
      /\ artifact' = artifact
      /\ sessions' = sessions

\* C33: every Run whose stream is consumed to the end emits exactly one
\* terminal event (the success summary or an error event); it is the last
\* event of the stream, and no chunk is read, analyzed or merged and no
\* status is written after it.
C33_TerminalEventIsLast ==
  [](C33_OneTerminalEvent) /\ [][C33_NothingAfterTerminal]_vars

\* C33 witness: a Run whose analyzer raised on chunk 2, after chunk 1 was
\* completed, ended with one error event, the last of its stream
C33_Witness ==
  \E w \in Workflows :
    /\ pc[w] = "done"
    /\ HasEvent(w, "chunk_completed", 1)
    /\ HasEvent(w, "chunk_started", 2)
    /\ Last(events[w]).kind = "error"

\* C34 (in every state): the chunk loop of a Run has gone round at most
\* ceil(N/C) times, C > 0 being the chunk size the loop uses.
C34_IterationsBounded ==
  \A w \in Workflows :
    /\ pc[w] \in {"has_more", "read", "analyze", "finalize"}
         => run[w].chunk_size_int > 0
    /\ run[w].chunk_size_int > 0
         => run[w].chunk_number
              <= Ceil(TotalRows(run[w].file), run[w].chunk_size_int)

\* C34 (in every step): the read of every loop iteration moves the cursor
\* strictly forward, whatever becomes of the chunk.
C34_CursorIncreases ==
  \A w \in Workflows :
    (pc[w] = "read" /\ pc'[w] # "read")
    => current_row_position' > current_row_position

\* C34: with chunk size C > 0 and a source of N rows, a Run with no other
\* Run active terminates: the cursor strictly increases on every loop
\* iteration (also for skipped chunks and chunks whose analysis gives no
\* structured result), the loop ends after at most ceil(N/C) iterations, and
\* the terminal event is eventually emitted.
C34_RunTerminates ==
  /\ [](C34_IterationsBounded)
  /\ [][C34_CursorIncreases]_vars
  /\ \A w \in Workflows :
       (pc[w] = "create") ~>
         (pc[w] = "done" /\ Last(events[w]).kind \in TerminalEvents)

\* C34 witness: a Run on 3 rows read one at a time went round the loop 3
\* times, one chunk skipped and one left without a structured result, and
\* emitted its success event
C34_Witness ==
  \E w \in Workflows :
    /\ pc[w] = "done" /\ Last(events[w]).kind = "final"
    /\ TotalRows(run[w].file) = 3 /\ run[w].chunk_number = 3
    /\ \E k \in 1..3 : HasEvent(w, "skipped", k)
    /\ \E k \in 1..3 :
         InSeq(k, run[w].analyzer_calls) /\ ~HasEvent(w, "chunk_completed", k)

\* C35: a get_setting (its fallback file readable) that follows a
\* delete_setting of the same key that returned success (no file fault in
\* it) returns the
\* caller's default, not a value stored before in the database or in the
\* fallback file.
C35_DeletedReadsDefault ==
  [][(/\ call.op = "delete_setting" /\ call.ok
      /\ call.read_ok /\ call.write_ok
      /\ call'.op = "get_setting" /\ call'.key = call.key
      /\ call'.read_ok)
     => call'.value = DefaultValue]_vars

\* C36: a Run whose create_session fails on the unique session_name adds
\* and alters no session record (the stored status of every session stays
\* as it was) and emits a single event, the terminal error event.
C36_FailedCreateChangesNothing ==
  [][\A w \in Workflows :
       (/\ pc[w] = "create" /\ pc'[w] = "done"
        /\ run[w].chunk_size.num
        /\ CreateRaises(sessions, run[w].session_name))
       => /\ sessions' = sessions
          /\ events'[w] = <<Event("error", 0)>>]_vars

\* C37: accepted rows are written only to the artifact of the session whose
\* Run produced them: a step of a Run leaves the artifact of every other
\* session as it was, and the rows of its own artifact after a merge are
\* rows that file held before and items accepted from the chunk the Run
\* holds, also when several Runs interleave and share the cursor.
C37_RunWritesOwnArtifact ==
  [][\A w \in Workflows :
       (pc[w] \notin {"idle", "done"} /\ run'[w] # run[w]) =>
         /\ \A s \in SessionIds :
              s # run[w].session => artifact'[s] = artifact[s]
         /\ (run[w].session # 0
             /\ artifact'[run[w].session] # artifact[run[w].session]) =>
              /\ pc[w] = "analyze"
              /\ \A i \in 1..Len(artifact'[run[w].session].rows) :
                   \/ \E j \in 1..Len(artifact[run[w].session].rows) :
                        artifact'[run[w].session].rows[i] =
                          WriteExcelCell(ReadExcelCell(
                            artifact[run[w].session].rows[j]))
                   \/ InSeq(artifact'[run[w].session].rows[i], run[w].keywords)]_vars

\* C37 witness: two Runs under way at once, each past a merge, and each
\* session's artifact holds rows
C37_Witness ==
  \E w, v \in Workflows :
    /\ w # v
    /\ InChunkLoop(w) /\ InChunkLoop(v)
    /\ run[w].total_keywords > 0 /\ run[v].total_keywords > 0
    /\ artifact[run[w].session].exists /\ artifact[run[w].session].rows # <<>>
    /\ artifact[run[v].session].exists /\ artifact[run[v].session].rows # <<>>

====
